---- MODULE Spec2Model ----
(***************************************************************************)
(* A model of audiosync.                                                   *)
(*                                                                         *)
(*  - src/src/main.c: main() allocates the interval ladder and the two     *)
(*    sample buffers, starts the capture and download producer threads,    *)
(*    and runs the matcher loop over the five intervals.                   *)
(*  - src/unnamed/part_000: crossCorrelation(), whose peak scan picks the  *)
(*    lag and the confidence out of the inverse transform's output.        *)
(*                                                                         *)
(* The bodies of capture() and download() and of the C cross_correlation() *)
(* are not part of the sources at hand.  The producers are modelled from   *)
(* the producer contract of the specification (sections 4.3, 4.4 and 5);   *)
(* cross_correlation() is an input: its return code and the confidence it  *)
(* reports are drawn from small sets.                                      *)
(***************************************************************************)
EXTENDS Integers, Sequences, FiniteSets, TLC

\* ------------------------------------------------------------------ bounds
\* Frames per second.  The program is built with 48000; the model scales the
\* rate down, which scales every interval of the ladder with it.
SAMPLE_RATE == 1

\* The largest number of frames a producer appends in one backend read.
MaxChunk == 2

\* Confidences reported by cross_correlation are drawn from 0..MaxConfidence.
MaxConfidence == 1

\* The correlation outputs handed to the peak scan have 1..MaxLen entries,
\* each in -MaxAmp..MaxAmp.
MaxLen == 3
MaxAmp == 2

\* The frames in five seconds of audio, 48000 * 5 at part_000:152.
FiveSeconds == 2

\* ------------------------------------------------------- program constants
\* main.c:35
n_intervals == 5

\* global.h (not among the sources): the acceptance threshold.
MIN_CONFIDENCE == 1

\* main.c:43-47: intervals[k] = 3*(k+1) * SAMPLE_RATE, k = 0..4.
intervals == [k \in 0..(n_intervals - 1) |-> 3 * (k + 1) * SAMPLE_RATE]

\* main.c:52: the capacity of both buffers.
length == intervals[n_intervals - 1]

\* The two producer threads: cap_th runs capture(&cap), down_th runs
\* download(&down).
Producers == {"cap", "down"}

\* main.c:70 and main.c:80: down.buf = arr1, cap.buf = arr2.
BufOf(p) == IF p = "down" THEN "arr1" ELSE "arr2"

VARIABLES
    pc,            \* where main is
    argc,          \* main's argument count
    intervals_ok,  \* whether malloc gave the ladder
    arr,           \* arr[b] for b in {"arr1","arr2"}: "unset", "ok", "null", "freed"
    end,           \* the stop flag
    ret,           \* main's return value
    i,             \* the matcher loop's index
    len,           \* len[p]: cap.len and down.len
    ppc,           \* ppc[p]: where producer p is
    failing,       \* failing[p]: p is reporting a fatal backend error
    joined,        \* joined[p]: pthread_join(p) has returned
    global_mutex,  \* owner of the mutex: "none", "junk", "main", "cap", "down"
    calls,         \* the rungs cross_correlation was invoked on, in order
    lengths,       \* the length argument of each of these calls, in order
    initialized,   \* the synchronization primitives that were initialized
    rc,            \* the last return code of cross_correlation
    confidence,    \* the confidence it last reported
    printed,       \* the rungs a RESULT line was printed for, in order
    exit_code,     \* how the process ended: "running", "0", "1" or "SIGSEGV"
    \* crossCorrelation (part_000)
    xc_pc,         \* where crossCorrelation is
    results,       \* the output of the inverse transform, indexed from 0
    xc_i,          \* the peak scan's index i
    xc_confidence, \* crossCorrelation's confidence
    delay,         \* crossCorrelation's delay
    xc_n,          \* crossCorrelation's parameter length
    GLOBAL_MUTEX,  \* owner of GLOBAL_MUTEX: "none" or a transform
    fpc,           \* fpc[t]: where the transform t is, inside fft() or ifft()
    plan,          \* plan[t]: "none", "null", "live" or "destroyed"
    destroys,      \* destroys[t]: how often t's plan was destroyed
    buf,           \* buf[b]: "unset", "ok", "null" or "freed"
    frees,         \* frees[b]: how often scratch buffer b was released
    xc_joined,     \* xc_joined[t]: the worker thread t was joined
    xc_ret,        \* what the call returned: "none" or "lag"
    xc_status,     \* how the call ended: "running", "SIGSEGV" or "SIGABRT"
    data1,         \* crossCorrelation's first input vector, indexed from 0
    data2,         \* its second input vector
    shift,         \* how far data2 is data1 rotated
    out1,          \* fft(data1): complex numbers [re, im], indexed from 0
    out2,          \* fft(data2)
    in,            \* the product handed to ifft
    \* runProcessing (part_000)
    rp_pc,         \* where runProcessing is
    samples,       \* audio.samples[0], the file's first channel
    out,           \* runProcessing's output vector
    rp_i           \* the index i of runProcessing's loop

\* The variables of main and of the producers.
mainVars == <<pc, argc, intervals_ok, arr, end, ret, i, len, ppc, failing,
              joined, global_mutex, calls, lengths, initialized, rc,
              confidence, printed, exit_code>>

\* The variables of one crossCorrelation call around the peak scan.
callVars == <<xc_n, GLOBAL_MUTEX, fpc, plan, destroys, buf, frees, xc_joined,
              xc_ret, xc_status>>

\* The values one crossCorrelation call computes on.
fftVars == <<data1, data2, shift, out1, out2, in>>

\* The variables of runProcessing.
rpVars == <<rp_pc, samples, out, rp_i>>

\* The variables of part_000: crossCorrelation's and runProcessing's.
xcVars == <<xc_pc, results, xc_i, xc_confidence, delay, callVars, fftVars,
            rpVars>>

vars == <<mainVars, xcVars>>

Buffers == {"arr1", "arr2"}

\* part_000:93-94: the two worker threads, each running fft().
Workers == {"fft1", "fft2"}

\* The three transforms of one call: the workers' and the caller's ifft()
\* of part_000:109.
Transforms == Workers \cup {"ifft"}

\* part_000:88-91, 99-101, 107-108: the four fftw_malloc'ed buffers.
Scratch == {"out1", "out2", "in", "results"}

\* The steps of fft() and ifft(), part_000:42-67.
TransformPcs == {"idle", "plan_lock", "planning", "planned", "executing",
                 "destroy_lock", "destroying", "done"}

\* The caller's steps in crossCorrelation outside the peak scan.
CallPcs == {"alloc_out", "spawn_fft1", "spawn_fft2", "join_fft1", "join_fft2",
            "alloc_in", "product", "alloc_results", "ifft", "free", "return",
            "returned"}

\* The values of main's program counter, one per statement of main that
\* reads or writes shared state or decides the control flow.
MainPcs == {"check_args", "malloc_intervals", "malloc_arrs", "create_cap",
            "create_down", "for_cond", "read_cap", "read_down", "cond_wait",
            "blocked", "woken", "correlate", "check_rc", "check_confidence",
            "join_cap", "join_down", "set_ret", "finish", "return",
            "exited", "returned"}

ProducerPcs == {"idle", "run", "lock", "locked", "exited"}

\* The correlation outputs the scan is run on.
ResultsInputs ==
    UNION {[0..(n - 1) -> (-MaxAmp)..MaxAmp] : n \in 1..MaxLen}

\* v is a vector of at most MaxLen entries of the set S, indexed from 0 as
\* in the source; <<>> is the vector without entries.
IsVector(v, S) ==
    \E m \in 0..MaxLen : DOMAIN v = 0..(m - 1) /\ \A k \in 0..(m - 1) : v[k] \in S

\* No entry of a transform of the modelled inputs lies outside -MaxOut..MaxOut.
MaxOut == 8 * MaxAmp * MaxAmp

\* fftw_complex, part_000:88-101: a pair [re, im].
Complex == [re : (-MaxOut)..MaxOut, im : (-MaxOut)..MaxOut]

\* part_000:152: n = 48000 * 5 * 2, twice five seconds of frames.
rp_n == FiveSeconds * 2

TypeOK ==
    /\ pc \in MainPcs
    /\ argc \in 1..3
    /\ intervals_ok \in BOOLEAN
    /\ arr \in [Buffers -> {"unset", "ok", "null", "freed"}]
    /\ end \in {0, 1}
    /\ ret \in {0, 1}
    /\ i \in 0..n_intervals
    /\ len \in [Producers -> 0..length]
    /\ ppc \in [Producers -> ProducerPcs]
    /\ failing \in [Producers -> BOOLEAN]
    /\ joined \in [Producers -> BOOLEAN]
    /\ global_mutex \in {"none", "junk", "main"} \cup Producers
    /\ calls \in Seq(0..(n_intervals - 1))
    /\ lengths \in Seq(0..length)
    /\ initialized \subseteq {"global_mutex", "thread_done"}
    /\ rc \in {-1, 0}
    /\ confidence \in 0..MaxConfidence
    /\ printed \in Seq(0..(n_intervals - 1))
    /\ exit_code \in {"running", "SIGSEGV", "0", "1"}
    /\ xc_pc \in {"idle", "fft", "scan_init", "scan", "scanned"} \cup CallPcs
    /\ IsVector(results, (-MaxOut)..MaxOut)
    /\ xc_n \in 0..MaxLen
    /\ GLOBAL_MUTEX \in {"none"} \cup Transforms
    /\ fpc \in [Transforms -> TransformPcs]
    /\ plan \in [Transforms -> {"none", "null", "live", "destroyed"}]
    /\ destroys \in [Transforms -> 0..1]
    /\ buf \in [Scratch -> {"unset", "ok", "null", "freed"}]
    /\ frees \in [Scratch -> 0..1]
    /\ xc_joined \in [Workers -> BOOLEAN]
    /\ xc_ret \in {"none", "lag"}
    /\ xc_status \in {"running", "SIGSEGV", "SIGABRT"}
    /\ IsVector(data1, (-MaxAmp)..MaxAmp)
    /\ IsVector(data2, (-MaxAmp)..MaxAmp)
    /\ shift \in 0..MaxLen
    /\ IsVector(out1, Complex)
    /\ IsVector(out2, Complex)
    /\ IsVector(in, Complex)
    /\ rp_pc \in {"idle", "load", "resize", "push_back", "done", "thrown"}
    /\ samples \in Seq((-MaxAmp)..MaxAmp)
    /\ out \in Seq((-MaxAmp)..MaxAmp)
    /\ rp_i \in 0..rp_n
    /\ xc_i \in 0..MaxLen
    /\ xc_confidence \in (-MaxOut)..MaxOut
    /\ delay \in 0..MaxLen

\* The state when main is entered.  main.c:48-49 declare global_mutex and
\* thread_done on the stack and nothing initializes them: the mutex starts
\* either looking unlocked ("none") or looking locked by nobody ("junk").
\* main.c:61 and main.c:64 give end and ret their first values.
MainInit ==
    /\ pc = "check_args"
    /\ argc \in 1..3
    /\ intervals_ok = FALSE
    /\ arr = [b \in Buffers |-> "unset"]
    /\ end = 0
    /\ ret = 1
    /\ i = 0
    /\ len = [p \in Producers |-> 0]
    /\ ppc = [p \in Producers |-> "idle"]
    /\ failing = [p \in Producers |-> FALSE]
    /\ joined = [p \in Producers |-> FALSE]
    /\ global_mutex \in {"none", "junk"}
    /\ initialized = {}
    /\ calls = <<>>
    /\ lengths = <<>>
    /\ rc = 0
    /\ confidence = 0
    /\ printed = <<>>
    /\ exit_code = "running"

\* No transform was started and no scratch buffer allocated.
CallIdle ==
    /\ xc_n = 0
    /\ GLOBAL_MUTEX = "none"
    /\ fpc = [t \in Transforms |-> "idle"]
    /\ plan = [t \in Transforms |-> "none"]
    /\ destroys = [t \in Transforms |-> 0]
    /\ buf = [b \in Scratch |-> "unset"]
    /\ frees = [b \in Scratch |-> 0]
    /\ xc_joined = [t \in Workers |-> FALSE]
    /\ xc_ret = "none"
    /\ xc_status = "running"

\* crossCorrelation was given no values.
FftIdle ==
    /\ data1 = <<>>
    /\ data2 = <<>>
    /\ shift = 0
    /\ out1 = <<>>
    /\ out2 = <<>>
    /\ in = <<>>

\* runProcessing is not running.
RpIdle ==
    /\ rp_pc = "idle"
    /\ samples = <<>>
    /\ out = <<>>
    /\ rp_i = 0

\* crossCorrelation is not running.
XcIdle ==
    /\ xc_pc = "idle"
    /\ results = <<>>
    /\ xc_i = 0
    /\ xc_confidence = 0
    /\ delay = 0
    /\ CallIdle
    /\ FftIdle

Init == MainInit /\ XcIdle /\ RpIdle

\* The process is alive: main has neither called exit nor returned, and no
\* thread has faulted.
Running == exit_code = "running"

\* exit(1), main.c:28 and main.c:40.
Exit1 ==
    /\ pc' = "exited"
    /\ exit_code' = "1"

\* ------------------------------------------------------------ main: setup

\* main.c:26-29
CheckArgs ==
    /\ Running /\ pc = "check_args"
    /\ UNCHANGED <<xcVars, initialized>>
    /\ IF argc # 2
         THEN Exit1
         ELSE pc' = "malloc_intervals" /\ UNCHANGED exit_code
    /\ UNCHANGED <<argc, intervals_ok, arr, end, ret, i, len, ppc, failing,
                   joined, global_mutex, calls, lengths, rc, confidence, printed>>

\* main.c:37-41
MallocIntervals ==
    /\ Running /\ pc = "malloc_intervals"
    /\ UNCHANGED <<xcVars, initialized>>
    /\ \E ok \in BOOLEAN :
         /\ intervals_ok' = ok
         /\ IF ~ok
              THEN Exit1
              ELSE pc' = "malloc_arrs" /\ UNCHANGED exit_code
    /\ UNCHANGED <<argc, arr, end, ret, i, len, ppc, failing, joined,
                   global_mutex, calls, lengths, rc, confidence, printed>>

\* main.c:55-58: the two buffers are allocated and neither result is tested.
MallocArrs ==
    /\ Running /\ pc = "malloc_arrs"
    /\ UNCHANGED <<xcVars, initialized>>
    /\ \E a1 \in {"ok", "null"}, a2 \in {"ok", "null"} :
         arr' = [arr EXCEPT !["arr1"] = a1, !["arr2"] = a2]
    /\ pc' = "create_cap"
    /\ UNCHANGED <<argc, intervals_ok, end, ret, i, len, ppc, failing, joined,
                   global_mutex, calls, lengths, rc, confidence, printed, exit_code>>

\* main.c:89-92
CreateCap ==
    /\ Running /\ pc = "create_cap"
    /\ UNCHANGED <<xcVars, initialized>>
    /\ \E ok \in BOOLEAN :
         IF ok
           THEN /\ ppc' = [ppc EXCEPT !["cap"] = "run"]
                /\ pc' = "create_down"
           ELSE /\ pc' = "finish"
                /\ UNCHANGED ppc
    /\ UNCHANGED <<argc, intervals_ok, arr, end, ret, i, len, failing, joined,
                   global_mutex, calls, lengths, rc, confidence, printed, exit_code>>

\* main.c:93-96, and the loop's initialization at main.c:99.
CreateDown ==
    /\ Running /\ pc = "create_down"
    /\ UNCHANGED <<xcVars, initialized>>
    /\ \E ok \in BOOLEAN :
         IF ok
           THEN /\ ppc' = [ppc EXCEPT !["down"] = "run"]
                /\ pc' = "for_cond"
           ELSE /\ pc' = "finish"
                /\ UNCHANGED ppc
    /\ i' = 0
    /\ UNCHANGED <<argc, intervals_ok, arr, end, ret, len, failing, joined,
                   global_mutex, calls, lengths, rc, confidence, printed, exit_code>>

\* ---------------------------------------------------- main: the matcher loop

\* main.c:99: the loop condition i < n_intervals.
ForCond ==
    /\ Running /\ pc = "for_cond"
    /\ UNCHANGED <<xcVars, initialized>>
    /\ pc' = IF i < n_intervals THEN "read_cap" ELSE "set_ret"
    /\ UNCHANGED <<argc, intervals_ok, arr, end, ret, i, len, ppc, failing,
                   joined, global_mutex, calls, lengths, rc, confidence, printed,
                   exit_code>>

\* ReadCapLen with && in place of || in the wait condition: a capture
\* watermark that has reached the rung ends the wait whatever download's is.
ReadCapLen_And ==
    /\ Running /\ pc = "read_cap"
    /\ UNCHANGED <<xcVars, initialized>>
    /\ pc' = IF len["cap"] < intervals[i] THEN "read_down" ELSE "correlate"
    /\ UNCHANGED <<argc, intervals_ok, arr, end, ret, i, len, ppc, failing,
                   joined, global_mutex, calls, lengths, rc, confidence, printed,
                   exit_code>>

\* main.c:101, left operand: cap.len < intervals[i].  The read is made without
\* locking global_mutex; `end` is not part of the condition.
ReadCapLen ==
    /\ Running /\ pc = "read_cap"
    /\ UNCHANGED <<xcVars, initialized>>
    /\ pc' = IF len["cap"] < intervals[i] THEN "cond_wait" ELSE "read_down"
    /\ UNCHANGED <<argc, intervals_ok, arr, end, ret, i, len, ppc, failing,
                   joined, global_mutex, calls, lengths, rc, confidence, printed,
                   exit_code>>

\* main.c:101, right operand: down.len < intervals[i], evaluated only when the
\* left operand is false.
ReadDownLen ==
    /\ Running /\ pc = "read_down"
    /\ UNCHANGED <<xcVars, initialized>>
    /\ pc' = IF len["down"] < intervals[i] THEN "cond_wait" ELSE "correlate"
    /\ UNCHANGED <<argc, intervals_ok, arr, end, ret, i, len, ppc, failing,
                   joined, global_mutex, calls, lengths, rc, confidence, printed,
                   exit_code>>

\* main.c:102: pthread_cond_wait(&thread_done, &global_mutex).
\* When main owns the mutex the call releases it and blocks.  When main does
\* not own it (always so on the first call: main never locks the mutex) the
\* call's behaviour is undefined.  The outcomes modelled: the call blocks,
\* having left the mutex alone or having released it under its owner; or the
\* call returns at once with an error, which the loop does not look at.
CondWait ==
    /\ Running /\ pc = "cond_wait"
    /\ UNCHANGED <<xcVars, initialized>>
    /\ \/ /\ pc' = "blocked"
          /\ global_mutex' = "none"
       \/ /\ global_mutex # "main"
          /\ pc' = "blocked"
          /\ UNCHANGED global_mutex
       \/ /\ global_mutex # "main"
          /\ pc' = "read_cap"
          /\ UNCHANGED global_mutex
    /\ UNCHANGED <<argc, intervals_ok, arr, end, ret, i, len, ppc, failing,
                   joined, calls, lengths, rc, confidence, printed, exit_code>>

\* main.c:102: a wait may end without any broadcast (a spurious wake-up).
SpuriousWake ==
    /\ Running /\ pc = "blocked"
    /\ UNCHANGED <<xcVars, initialized>>
    /\ pc' = "woken"
    /\ UNCHANGED <<argc, intervals_ok, arr, end, ret, i, len, ppc, failing,
                   joined, global_mutex, calls, lengths, rc, confidence, printed,
                   exit_code>>

\* main.c:102: a woken pthread_cond_wait returns once it has locked the mutex
\* again, so main owns global_mutex from its first wake-up on.
Reacquire ==
    /\ Running /\ pc = "woken"
    /\ UNCHANGED <<xcVars, initialized>>
    /\ global_mutex = "none"
    /\ global_mutex' = "main"
    /\ pc' = "read_cap"
    /\ UNCHANGED <<argc, intervals_ok, arr, end, ret, i, len, ppc, failing,
                   joined, calls, lengths, rc, confidence, printed, exit_code>>

\* main.c:110: the call cross_correlation(arr1, arr2, intervals[i], &lag,
\* &confidence).  The function's body is not among the sources: its return
\* code and the confidence it stores are inputs.  A failing call stores no
\* confidence.  Reading a buffer that was never allocated faults.
CrossCorrelation ==
    /\ Running /\ pc = "correlate"
    /\ UNCHANGED <<xcVars, initialized>>
    /\ IF \E b \in Buffers : arr[b] = "null"
         THEN /\ exit_code' = "SIGSEGV"
              /\ UNCHANGED <<pc, calls, lengths, rc, confidence>>
         ELSE /\ calls' = Append(calls, i)
              /\ lengths' = Append(lengths, intervals[i])
              /\ \E r \in {-1, 0}, c \in 0..MaxConfidence :
                   /\ rc' = r
                   /\ confidence' = IF r < 0 THEN confidence ELSE c
              /\ pc' = "check_rc"
              /\ UNCHANGED exit_code
    /\ UNCHANGED <<argc, intervals_ok, arr, end, ret, i, len, ppc, failing,
                   joined, global_mutex, printed>>

\* CheckReturn with `goto finish` in place of `continue`: a failing rung
\* aborts the run.
CheckReturn_Abort ==
    /\ Running /\ pc = "check_rc"
    /\ UNCHANGED <<xcVars, initialized>>
    /\ IF rc < 0
         THEN pc' = "finish"
         ELSE pc' = "check_confidence"
    /\ UNCHANGED <<argc, intervals_ok, arr, end, ret, i, len, ppc, failing,
                   joined, global_mutex, calls, lengths, rc, confidence, printed,
                   exit_code>>

\* main.c:110-112: a negative return code skips to the next interval.
CheckReturn ==
    /\ Running /\ pc = "check_rc"
    /\ UNCHANGED <<xcVars, initialized>>
    /\ IF rc < 0
         THEN /\ i' = i + 1
              /\ pc' = "for_cond"
         ELSE /\ pc' = "check_confidence"
              /\ UNCHANGED i
    /\ UNCHANGED <<argc, intervals_ok, arr, end, ret, len, ppc, failing,
                   joined, global_mutex, calls, lengths, rc, confidence, printed,
                   exit_code>>

\* CheckConfidence with the printf of main.c:117 moved in front of the test of
\* main.c:116: every successful rung prints a RESULT line.
CheckConfidence_PrintAlways ==
    /\ Running /\ pc = "check_confidence"
    /\ UNCHANGED <<xcVars, initialized>>
    /\ printed' = Append(printed, i)
    /\ IF confidence >= MIN_CONFIDENCE
         THEN /\ end' = 1
              /\ pc' = "join_cap"
              /\ UNCHANGED i
         ELSE /\ i' = i + 1
              /\ pc' = "for_cond"
              /\ UNCHANGED end
    /\ UNCHANGED <<argc, intervals_ok, arr, ret, len, ppc, failing, joined,
                   global_mutex, calls, lengths, rc, confidence, exit_code>>

\* main.c:116-120 and the loop's ++i: on an accepted confidence the RESULT
\* line is printed and end is set (a plain store, with no lock held for it and
\* no broadcast after it); otherwise the loop goes on to the next interval.
CheckConfidence ==
    /\ Running /\ pc = "check_confidence"
    /\ UNCHANGED <<xcVars, initialized>>
    /\ IF confidence >= MIN_CONFIDENCE
         THEN /\ printed' = Append(printed, i)
              /\ end' = 1
              /\ pc' = "join_cap"
              /\ UNCHANGED i
         ELSE /\ i' = i + 1
              /\ pc' = "for_cond"
              /\ UNCHANGED <<printed, end>>
    /\ UNCHANGED <<argc, intervals_ok, arr, ret, len, ppc, failing, joined,
                   global_mutex, calls, lengths, rc, confidence, exit_code>>

\* main.c:121: pthread_join(cap_th) returns when capture has exited.
JoinCap ==
    /\ Running /\ pc = "join_cap"
    /\ UNCHANGED <<xcVars, initialized>>
    /\ ppc["cap"] = "exited"
    /\ joined' = [joined EXCEPT !["cap"] = TRUE]
    /\ pc' = "join_down"
    /\ UNCHANGED <<argc, intervals_ok, arr, end, ret, i, len, ppc, failing,
                   global_mutex, calls, lengths, rc, confidence, printed, exit_code>>

\* JoinDown without the break of main.c:123: the loop goes on after a match.
JoinDown_NoBreak ==
    /\ Running /\ pc = "join_down"
    /\ UNCHANGED <<xcVars, initialized>>
    /\ ppc["down"] = "exited"
    /\ joined' = [joined EXCEPT !["down"] = TRUE]
    /\ i' = i + 1
    /\ pc' = "for_cond"
    /\ UNCHANGED <<argc, intervals_ok, arr, end, ret, len, ppc, failing,
                   global_mutex, calls, lengths, rc, confidence, printed, exit_code>>

\* main.c:122-123: pthread_join(down_th), then break.
JoinDown ==
    /\ Running /\ pc = "join_down"
    /\ UNCHANGED <<xcVars, initialized>>
    /\ ppc["down"] = "exited"
    /\ joined' = [joined EXCEPT !["down"] = TRUE]
    /\ pc' = "set_ret"
    /\ UNCHANGED <<argc, intervals_ok, arr, end, ret, i, len, ppc, failing,
                   global_mutex, calls, lengths, rc, confidence, printed, exit_code>>

\* main.c:127
SetRet ==
    /\ Running /\ pc = "set_ret"
    /\ UNCHANGED <<xcVars, initialized>>
    /\ ret' = 0
    /\ pc' = "finish"
    /\ UNCHANGED <<argc, intervals_ok, arr, end, i, len, ppc, failing, joined,
                   global_mutex, calls, lengths, rc, confidence, printed, exit_code>>

\* main.c:129-131: the finish label frees each buffer that is not NULL.
Finish ==
    /\ Running /\ pc = "finish"
    /\ UNCHANGED <<xcVars, initialized>>
    /\ arr' = [b \in Buffers |-> IF arr[b] = "ok" THEN "freed" ELSE arr[b]]
    /\ pc' = "return"
    /\ UNCHANGED <<argc, intervals_ok, end, ret, i, len, ppc, failing, joined,
                   global_mutex, calls, lengths, rc, confidence, printed, exit_code>>

\* main.c:133: return ret ends the process, its threads included.
Return ==
    /\ Running /\ pc = "return"
    /\ UNCHANGED <<xcVars, initialized>>
    /\ exit_code' = IF ret = 0 THEN "0" ELSE "1"
    /\ pc' = "returned"
    /\ UNCHANGED <<argc, intervals_ok, arr, end, ret, i, len, ppc, failing,
                   joined, global_mutex, calls, lengths, rc, confidence, printed>>

\* ------------------------------------------------------------- producers
\* capture() and download() are declared in capture/linux_capture.h and
\* download/linux_download.h; their bodies are not among the sources.  They
\* are modelled from the producer contract (specification 4.3, 4.4, 5).

\* Whether an append that moves the watermark from `old` to `new` reaches or
\* passes a rung of the ladder (4.4, obligation 3).
CrossesRung(old, new) ==
    \E k \in 0..(n_intervals - 1) : old < intervals[k] /\ intervals[k] <= new

\* One backend read (4.4, obligations 2 and 4): the producer polls the stop
\* flag and exits when it is set; otherwise it appends a chunk and goes to a
\* checkpoint when the watermark reaches a rung.  A store through a NULL
\* buffer faults; a store into a freed buffer faults or goes unnoticed.
ProducerRead(p) ==
    /\ Running /\ ppc[p] = "run"
    /\ UNCHANGED <<xcVars, initialized>>
    /\ IF end # 0
         THEN /\ ppc' = [ppc EXCEPT ![p] = "exited"]
              /\ UNCHANGED <<len, exit_code>>
         ELSE \E c \in 1..MaxChunk :
                /\ len[p] + c <= length
                /\ \/ /\ arr[BufOf(p)] \in {"null", "freed"}
                      /\ exit_code' = "SIGSEGV"
                      /\ UNCHANGED <<len, ppc>>
                   \/ /\ arr[BufOf(p)] \in {"ok", "freed"}
                      /\ len' = [len EXCEPT ![p] = len[p] + c]
                      /\ ppc' = [ppc EXCEPT ![p] =
                                   IF CrossesRung(len[p], len[p] + c)
                                     THEN "lock" ELSE "run"]
                      /\ UNCHANGED exit_code
    /\ UNCHANGED <<pc, argc, intervals_ok, arr, end, ret, i, failing, joined,
                   global_mutex, calls, lengths, rc, confidence, printed>>

\* A fatal backend error (4.4, obligation 5): the producer goes on to set the
\* stop flag under the mutex.
ProducerFail(p) ==
    /\ Running /\ ppc[p] = "run"
    /\ UNCHANGED <<xcVars, initialized>>
    /\ end = 0
    /\ failing' = [failing EXCEPT ![p] = TRUE]
    /\ ppc' = [ppc EXCEPT ![p] = "lock"]
    /\ UNCHANGED <<pc, argc, intervals_ok, arr, end, ret, i, len, joined,
                   global_mutex, calls, lengths, rc, confidence, printed, exit_code>>

\* checkpoint(), first step (4.3): lock the mutex; blocks while it is held.
ProducerLock(p) ==
    /\ Running /\ ppc[p] = "lock"
    /\ UNCHANGED <<xcVars, initialized>>
    /\ global_mutex = "none"
    /\ global_mutex' = p
    /\ ppc' = [ppc EXCEPT ![p] = "locked"]
    /\ UNCHANGED <<pc, argc, intervals_ok, arr, end, ret, i, len, failing,
                   joined, calls, lengths, rc, confidence, printed, exit_code>>

\* checkpoint(), second step: broadcast on the condition variable, which
\* wakes main when it is blocked in pthread_cond_wait, and unlock the mutex.
\* A failing producer sets the stop flag first (section 3, SyncSignal: a
\* transition of StopFlag is followed by a broadcast).  The producer exits
\* after the checkpoint of a fatal error or of a full buffer (4.4, obligation
\* 2).  If main's pthread_cond_wait took the mutex away meanwhile, the unlock
\* is made by a thread that does not own it: it is released or left alone.
ProducerBroadcast(p) ==
    /\ Running /\ ppc[p] = "locked"
    /\ UNCHANGED <<xcVars, initialized>>
    /\ end' = IF failing[p] THEN 1 ELSE end
    /\ pc' = IF pc = "blocked" THEN "woken" ELSE pc
    /\ \/ global_mutex' = "none"
       \/ global_mutex # p /\ UNCHANGED global_mutex
    /\ ppc' = [ppc EXCEPT ![p] =
                 IF failing[p] \/ len[p] = length THEN "exited" ELSE "run"]
    /\ UNCHANGED <<argc, intervals_ok, arr, ret, i, len, failing, joined,
                   calls, lengths, rc, confidence, printed, exit_code>>

\* ------------------------------------------------------------ the program

MainStep ==
    \/ CheckArgs \/ MallocIntervals \/ MallocArrs \/ CreateCap \/ CreateDown
    \/ ForCond \/ ReadCapLen \/ ReadDownLen \/ CondWait \/ Reacquire
    \/ CrossCorrelation \/ CheckReturn \/ CheckConfidence
    \/ JoinCap \/ JoinDown \/ SetRet \/ Finish \/ Return

ProducerStep(p) ==
    \/ ProducerRead(p) \/ ProducerFail(p) \/ ProducerLock(p)
    \/ ProducerBroadcast(p)

Next ==
    \/ MainStep
    \/ SpuriousWake
    \/ \E p \in Producers : ProducerStep(p)

Spec == Init /\ [][Next]_vars

\* ------------------------------------------- crossCorrelation: the peak scan
\* part_000:110-118.  `results` holds the inverse transform's output; the
\* scan leaves the peak's index in delay and its value in confidence.

\* abs(), part_000:113, on the values the model draws.
abs(x) == IF x < 0 THEN -x ELSE x

\* The number of entries of `results`: crossCorrelation's parameter length.
xc_length == Cardinality(DOMAIN results)

\* A call whose inverse transform has just filled `results`.
XcInit ==
    /\ MainInit
    /\ argc = 2
    /\ global_mutex = "none"
    /\ xc_pc = "scan_init"
    /\ results \in ResultsInputs
    /\ xc_i = 0
    /\ xc_confidence = 0
    /\ delay = 0
    /\ CallIdle
    /\ FftIdle
    /\ RpIdle

\* part_000:110-111 and the loop's initialization at part_000:112.
PeakScanInit ==
    /\ xc_pc = "scan_init"
    /\ xc_confidence' = results[0]
    /\ delay' = 0
    /\ xc_i' = 1
    /\ xc_pc' = "scan"
    /\ UNCHANGED <<mainVars, fftVars, rpVars, callVars, results>>

\* part_000:112-118: one iteration of the scan.  The comparison takes the
\* absolute value of results[i]; the assignment stores results[i] itself.
PeakScanStep ==
    /\ xc_pc = "scan"
    /\ xc_i < xc_length
    /\ IF abs(results[xc_i]) > xc_confidence
         THEN /\ xc_confidence' = results[xc_i]
              /\ delay' = xc_i
         ELSE UNCHANGED <<xc_confidence, delay>>
    /\ xc_i' = xc_i + 1
    /\ UNCHANGED <<mainVars, fftVars, rpVars, callVars, xc_pc, results>>

\* part_000:112: the loop ends when i reaches length.
PeakScanExit ==
    /\ xc_pc = "scan"
    /\ ~(xc_i < xc_length)
    /\ xc_pc' = "scanned"
    /\ UNCHANGED <<mainVars, fftVars, rpVars, callVars, results, xc_i, xc_confidence, delay>>

XcNext == PeakScanInit \/ PeakScanStep \/ PeakScanExit

XcSpec == XcInit /\ [][XcNext]_vars

\* ------------------------------------------------ crossCorrelation: the call
\* part_000:85-135 with fft() and ifft(), part_000:42-67.  The values the
\* transforms compute are left open here: the inverse transform leaves any
\* vector of the call's length in `results`.

\* Neither a fault nor std::terminate has ended the process.
CallRunning == xc_status = "running"

\* The buffer a transform writes its output to.
OutOf(t) == IF t = "fft1" THEN "out1" ELSE IF t = "fft2" THEN "out2"
            ELSE "results"

\* A call crossCorrelation(data1, data2, length, confidence) is entered; as
\* at part_000:191 both vectors have `length` entries.
CallInit ==
    /\ MainInit
    /\ argc = 2
    /\ global_mutex = "none"
    /\ xc_pc = "alloc_out"
    /\ results = <<>>
    /\ xc_i = 0
    /\ xc_confidence = 0
    /\ delay = 0
    /\ xc_n \in 0..MaxLen
    /\ GLOBAL_MUTEX = "none"
    /\ fpc = [t \in Transforms |-> "idle"]
    /\ plan = [t \in Transforms |-> "none"]
    /\ destroys = [t \in Transforms |-> 0]
    /\ buf = [b \in Scratch |-> "unset"]
    /\ frees = [b \in Scratch |-> 0]
    /\ xc_joined = [t \in Workers |-> FALSE]
    /\ xc_ret = "none"
    /\ xc_status = "running"
    /\ FftIdle
    /\ RpIdle

\* part_000:88-91: out1 and out2 are allocated; fftw_malloc may return NULL
\* and nothing checks it (part_000:80).
XcAllocOut ==
    /\ CallRunning /\ xc_pc = "alloc_out"
    /\ \E a1 \in {"ok", "null"}, a2 \in {"ok", "null"} :
         buf' = [buf EXCEPT !["out1"] = a1, !["out2"] = a2]
    /\ xc_pc' = "spawn_fft1"
    /\ UNCHANGED <<mainVars, fftVars, rpVars, results, xc_i, xc_confidence, delay, xc_n,
                   GLOBAL_MUTEX, fpc, plan, destroys, frees, xc_joined,
                   xc_ret, xc_status>>

\* part_000:93 and part_000:94: std::thread's constructor starts the worker
\* t, or throws std::system_error.  Nothing catches it (part_000:161-208),
\* and unwinding past a joinable fft1 calls std::terminate as well.
XcSpawn(t) ==
    /\ CallRunning /\ xc_pc = IF t = "fft1" THEN "spawn_fft1" ELSE "spawn_fft2"
    /\ \E started \in BOOLEAN :
         IF started
           THEN /\ fpc' = [fpc EXCEPT ![t] = "plan_lock"]
                /\ xc_pc' = IF t = "fft1" THEN "spawn_fft2" ELSE "join_fft1"
                /\ UNCHANGED xc_status
           ELSE /\ xc_status' = "SIGABRT"
                /\ UNCHANGED <<fpc, xc_pc>>
    /\ UNCHANGED <<mainVars, fftVars, rpVars, results, xc_i, xc_confidence, delay, xc_n,
                   GLOBAL_MUTEX, plan, destroys, buf, frees, xc_joined,
                   xc_ret>>

\* TransformLockPlan without the unique_lock of part_000:45 and part_000:59:
\* the plan is built without taking GLOBAL_MUTEX.
TransformLockPlan_NoLock(t) ==
    /\ CallRunning /\ fpc[t] = "plan_lock"
    /\ fpc' = [fpc EXCEPT ![t] = "planning"]
    /\ UNCHANGED <<mainVars, fftVars, rpVars, xc_pc, results, xc_i, xc_confidence, delay, xc_n,
                   GLOBAL_MUTEX, plan, destroys, buf, frees, xc_joined,
                   xc_ret, xc_status>>

\* part_000:45 and part_000:59: std::unique_lock takes GLOBAL_MUTEX; the
\* transform is then inside the block that builds its plan.
TransformLockPlan(t) ==
    /\ CallRunning /\ fpc[t] = "plan_lock"
    /\ GLOBAL_MUTEX = "none"
    /\ GLOBAL_MUTEX' = t
    /\ fpc' = [fpc EXCEPT ![t] = "planning"]
    /\ UNCHANGED <<mainVars, fftVars, rpVars, xc_pc, results, xc_i, xc_confidence, delay, xc_n,
                   plan, destroys, buf, frees, xc_joined, xc_ret, xc_status>>

\* part_000:46-48 and part_000:60-62: the plan is built and the lock's scope
\* ends.  The planner gives no plan (NULL) for a transform of size 0.
TransformPlan(t) ==
    /\ CallRunning /\ fpc[t] = "planning"
    /\ plan' = [plan EXCEPT ![t] = IF xc_n = 0 THEN "null" ELSE "live"]
    /\ GLOBAL_MUTEX' = "none"
    /\ fpc' = [fpc EXCEPT ![t] = "planned"]
    /\ UNCHANGED <<mainVars, fftVars, rpVars, xc_pc, results, xc_i, xc_confidence, delay, xc_n,
                   destroys, buf, frees, xc_joined, xc_ret, xc_status>>

\* part_000:49 and part_000:63: fftw_execute(p) is entered.  It faults on a
\* NULL plan, and when it writes to an output buffer that fftw_malloc did
\* not give.
TransformExecuteBegin(t) ==
    /\ CallRunning /\ fpc[t] = "planned"
    /\ IF plan[t] = "null" \/ buf[OutOf(t)] = "null"
         THEN /\ xc_status' = "SIGSEGV"
              /\ UNCHANGED fpc
         ELSE /\ fpc' = [fpc EXCEPT ![t] = "executing"]
              /\ UNCHANGED xc_status
    /\ UNCHANGED <<mainVars, fftVars, rpVars, xc_pc, results, xc_i, xc_confidence, delay, xc_n,
                   GLOBAL_MUTEX, plan, destroys, buf, frees, xc_joined,
                   xc_ret>>

\* part_000:49 and part_000:63: fftw_execute(p) returns.  The inverse
\* transform has filled `results`.
TransformExecuteEnd(t) ==
    /\ CallRunning /\ fpc[t] = "executing"
    /\ fpc' = [fpc EXCEPT ![t] = "destroy_lock"]
    /\ IF t = "ifft"
         THEN results' \in [0..(xc_n - 1) -> (-MaxAmp)..MaxAmp]
         ELSE UNCHANGED results
    /\ UNCHANGED <<mainVars, fftVars, rpVars, xc_pc, xc_i, xc_confidence, delay, xc_n,
                   GLOBAL_MUTEX, plan, destroys, buf, frees, xc_joined,
                   xc_ret, xc_status>>

\* part_000:51 and part_000:65: the second std::unique_lock.
TransformLockDestroy(t) ==
    /\ CallRunning /\ fpc[t] = "destroy_lock"
    /\ GLOBAL_MUTEX = "none"
    /\ GLOBAL_MUTEX' = t
    /\ fpc' = [fpc EXCEPT ![t] = "destroying"]
    /\ UNCHANGED <<mainVars, fftVars, rpVars, xc_pc, results, xc_i, xc_confidence, delay, xc_n,
                   plan, destroys, buf, frees, xc_joined, xc_ret, xc_status>>

\* part_000:52-53 and part_000:66-67: fftw_destroy_plan(p), and the lock's
\* scope ends; fft() or ifft() returns.
TransformDestroy(t) ==
    /\ CallRunning /\ fpc[t] = "destroying"
    /\ plan' = [plan EXCEPT ![t] = "destroyed"]
    /\ destroys' = [destroys EXCEPT ![t] = @ + 1]
    /\ GLOBAL_MUTEX' = "none"
    /\ fpc' = [fpc EXCEPT ![t] = "done"]
    /\ UNCHANGED <<mainVars, fftVars, rpVars, xc_pc, results, xc_i, xc_confidence, delay, xc_n,
                   buf, frees, xc_joined, xc_ret, xc_status>>

\* part_000:95 and part_000:96: join() returns once the worker has left
\* fft().
XcJoin(t) ==
    /\ CallRunning /\ xc_pc = IF t = "fft1" THEN "join_fft1" ELSE "join_fft2"
    /\ fpc[t] = "done"
    /\ xc_joined' = [xc_joined EXCEPT ![t] = TRUE]
    /\ xc_pc' = IF t = "fft1" THEN "join_fft2" ELSE "alloc_in"
    /\ UNCHANGED <<mainVars, fftVars, rpVars, results, xc_i, xc_confidence, delay, xc_n,
                   GLOBAL_MUTEX, fpc, plan, destroys, buf, frees, xc_ret,
                   xc_status>>

\* part_000:99-101: `in` is allocated.
XcAllocIn ==
    /\ CallRunning /\ xc_pc = "alloc_in"
    /\ \E a \in {"ok", "null"} : buf' = [buf EXCEPT !["in"] = a]
    /\ xc_pc' = "product"
    /\ UNCHANGED <<mainVars, fftVars, rpVars, results, xc_i, xc_confidence, delay, xc_n,
                   GLOBAL_MUTEX, fpc, plan, destroys, frees, xc_joined,
                   xc_ret, xc_status>>

\* part_000:102-106: the product loop reads out1 and out2 and writes `in`;
\* it runs at least once, and faults when `in` was not given.
XcProduct ==
    /\ CallRunning /\ xc_pc = "product"
    /\ IF buf["in"] = "null"
         THEN /\ xc_status' = "SIGSEGV"
              /\ UNCHANGED xc_pc
         ELSE /\ xc_pc' = "alloc_results"
              /\ UNCHANGED xc_status
    /\ UNCHANGED <<mainVars, fftVars, rpVars, results, xc_i, xc_confidence, delay, xc_n,
                   GLOBAL_MUTEX, fpc, plan, destroys, buf, frees, xc_joined,
                   xc_ret>>

\* part_000:107-109: `results` is allocated and the caller enters ifft().
XcAllocResults ==
    /\ CallRunning /\ xc_pc = "alloc_results"
    /\ \E a \in {"ok", "null"} : buf' = [buf EXCEPT !["results"] = a]
    /\ fpc' = [fpc EXCEPT !["ifft"] = "plan_lock"]
    /\ xc_pc' = "ifft"
    /\ UNCHANGED <<mainVars, fftVars, rpVars, results, xc_i, xc_confidence, delay, xc_n,
                   GLOBAL_MUTEX, plan, destroys, frees, xc_joined, xc_ret,
                   xc_status>>

\* part_000:109: ifft() has returned; the peak scan follows.
XcIfftReturn ==
    /\ CallRunning /\ xc_pc = "ifft"
    /\ fpc["ifft"] = "done"
    /\ xc_pc' = "scan_init"
    /\ UNCHANGED <<mainVars, fftVars, rpVars, results, xc_i, xc_confidence, delay, callVars>>

\* XcFree without the free(in) of part_000:130.
XcFree_LeakIn ==
    /\ CallRunning /\ xc_pc = "scanned"
    /\ buf' = [b \in Scratch |-> IF b = "in" THEN buf[b] ELSE "freed"]
    /\ frees' = [b \in Scratch |-> IF b = "in" THEN frees[b] ELSE frees[b] + 1]
    /\ xc_pc' = "return"
    /\ UNCHANGED <<mainVars, fftVars, rpVars, results, xc_i, xc_confidence, delay, xc_n,
                   GLOBAL_MUTEX, fpc, plan, destroys, xc_joined, xc_ret,
                   xc_status>>

\* part_000:128-131: free(out1); free(out2); free(in); free(results).  (The
\* buffers came from fftw_malloc; they are released with free.)
XcFree ==
    /\ CallRunning /\ xc_pc = "scanned"
    /\ buf' = [b \in Scratch |-> "freed"]
    /\ frees' = [b \in Scratch |-> frees[b] + 1]
    /\ xc_pc' = "return"
    /\ UNCHANGED <<mainVars, fftVars, rpVars, results, xc_i, xc_confidence, delay, xc_n,
                   GLOBAL_MUTEX, fpc, plan, destroys, xc_joined, xc_ret,
                   xc_status>>

\* part_000:134: `return delay / 48.0`, the function's only return; its
\* result is always a lag.
XcReturn ==
    /\ CallRunning /\ xc_pc = "return"
    /\ xc_ret' = "lag"
    /\ xc_pc' = "returned"
    /\ UNCHANGED <<mainVars, fftVars, rpVars, results, xc_i, xc_confidence, delay, xc_n,
                   GLOBAL_MUTEX, fpc, plan, destroys, buf, frees, xc_joined,
                   xc_status>>

\* One step of the transform t, in whichever thread runs it.
TransformStep(t) ==
    \/ TransformLockPlan(t)
    \/ TransformPlan(t)
    \/ TransformExecuteBegin(t)
    \/ TransformExecuteEnd(t)
    \/ TransformLockDestroy(t)
    \/ TransformDestroy(t)

\* One step of the thread that called crossCorrelation.
CallerStep ==
    \/ XcAllocOut
    \/ \E t \in Workers : XcSpawn(t)
    \/ \E t \in Workers : XcJoin(t)
    \/ XcAllocIn
    \/ XcProduct
    \/ XcAllocResults
    \/ XcIfftReturn
    \/ XcNext
    \/ XcFree
    \/ XcReturn

CallNext ==
    \/ CallerStep
    \/ \E t \in Transforms : TransformStep(t)

CallSpec == CallInit /\ [][CallNext]_vars

\* ---------------------------------------------- crossCorrelation: the values
\* part_000:85-118 on numbers.  The discrete Fourier transform of a vector
\* of 1 or 2 reals has the twiddle factors 1 and -1 only, so for these
\* lengths every value the function computes is an integer.

\* The lengths on which the transforms are computed exactly.
ExactLengths == {1, 2}

\* e^(-2 pi i m / n) for n in ExactLengths.
Twiddle(n, m) == IF n = 2 /\ m % 2 = 1 THEN -1 ELSE 1

\* The sum of the entries of the vector f.
RECURSIVE Sum(_, _)
Sum(f, m) == IF m = 0 THEN 0 ELSE f[m - 1] + Sum(f, m - 1)

\* sqrt on the squares.
sqrt(v) == CHOOSE r \in 0..v : r * r = v

\* part_000:36-38
getMagnitude(r, i_) == sqrt(r * r + i_ * i_)

\* fftw_plan_dft_r2c_1d and fftw_execute, part_000:46-49: the first n/2 + 1
\* coefficients of the transform of the n reals x.
r2c(x, n) ==
    [k \in 0..(n \div 2) |->
        [re |-> Sum([j \in 0..(n - 1) |-> x[j] * Twiddle(n, j * k)], n),
         im |-> 0]]

\* fftw_plan_dft_c2r_1d and fftw_execute, part_000:60-63: the unnormalized
\* inverse transform of the n/2 + 1 coefficients c; for n in ExactLengths
\* these are all n coefficients.
c2r(c, n) ==
    [j \in 0..(n - 1) |->
        Sum([k \in 0..(n - 1) |-> c[k].re * Twiddle(n, j * k)], n)]

\* x rotated by d: entry j of x moves to (j + d) mod n.
rotate(x, d) ==
    LET n == Cardinality(DOMAIN x)
    IN  [j \in DOMAIN x |-> x[(j + n - d) % n]]

\* A call crossCorrelation(x, rotate(x, d), n, confidence) is about to run
\* its forward transforms.
ShiftInit ==
    /\ MainInit
    /\ argc = 2
    /\ global_mutex = "none"
    /\ xc_pc = "fft"
    /\ results = <<>>
    /\ xc_i = 0
    /\ xc_confidence = 0
    /\ delay = 0
    /\ CallIdle
    /\ RpIdle
    /\ \E n \in ExactLengths :
         /\ data1 \in [0..(n - 1) -> (-MaxAmp)..MaxAmp]
         /\ shift \in 0..(n - 1)
    /\ data2 = rotate(data1, shift)
    /\ out1 = <<>>
    /\ out2 = <<>>
    /\ in = <<>>

\* part_000:93-96: the worker t transforms its input; the two run in any
\* order.
Fft(t) ==
    /\ xc_pc = "fft"
    /\ IF t = "fft1"
         THEN /\ out1 = <<>>
              /\ out1' = r2c(data1, Cardinality(DOMAIN data1))
              /\ UNCHANGED out2
         ELSE /\ out2 = <<>>
              /\ out2' = r2c(data2, Cardinality(DOMAIN data2))
              /\ UNCHANGED out1
    /\ UNCHANGED <<mainVars, rpVars, callVars, xc_pc, results, xc_i,
                   xc_confidence, delay, data1, data2, shift, in>>

\* part_000:99-106, after both joins: in[i] = out1[i] * |out2[i]|.
Multiply ==
    /\ xc_pc = "fft"
    /\ out1 # <<>> /\ out2 # <<>>
    /\ in' = [k \in DOMAIN out1 |->
                [re |-> out1[k].re * getMagnitude(out2[k].re, out2[k].im),
                 im |-> out1[k].im * getMagnitude(out2[k].re, out2[k].im)]]
    /\ xc_pc' = "ifft"
    /\ UNCHANGED <<mainVars, rpVars, callVars, results, xc_i, xc_confidence,
                   delay, data1, data2, shift, out1, out2>>

\* part_000:107-109: results = ifft(in).
Ifft ==
    /\ xc_pc = "ifft"
    /\ in # <<>>
    /\ results' = c2r(in, Cardinality(DOMAIN data1))
    /\ xc_pc' = "scan_init"
    /\ UNCHANGED <<mainVars, rpVars, callVars, xc_i, xc_confidence, delay,
                   fftVars>>

ShiftNext ==
    \/ \E t \in Workers : Fft(t)
    \/ Multiply
    \/ Ifft
    \/ XcNext

ShiftSpec == ShiftInit /\ [][ShiftNext]_vars

\* ------------------------------------------------------------ runProcessing
\* part_000:141-158.

\* A file whose first channel has up to rp_n + 1 frames is about to be
\* loaded.
RpInit ==
    /\ MainInit
    /\ argc = 2
    /\ global_mutex = "none"
    /\ XcIdle
    /\ rp_pc = "load"
    /\ samples \in UNION {[1..m -> (-MaxAmp)..MaxAmp] : m \in 0..(rp_n + 1)}
    /\ out = <<>>
    /\ rp_i = 0

\* part_000:143-151: the file is loaded; without frames the function
\* throws, otherwise out = audio.samples[0].
RpLoad ==
    /\ rp_pc = "load"
    /\ IF Len(samples) = 0
         THEN /\ rp_pc' = "thrown"
              /\ UNCHANGED out
         ELSE /\ out' = samples
              /\ rp_pc' = "resize"
    /\ UNCHANGED <<mainVars, xc_pc, results, xc_i, xc_confidence, delay,
                   callVars, fftVars, samples, rp_i>>

\* part_000:152-154: out.resize(n) cuts the vector to n entries or fills it
\* with zeros up to n; the loop starts at i = n/2.
RpResize ==
    /\ rp_pc = "resize"
    /\ out' = [k \in 1..rp_n |-> IF k <= Len(out) THEN out[k] ELSE 0]
    /\ rp_i' = rp_n \div 2
    /\ rp_pc' = "push_back"
    /\ UNCHANGED <<mainVars, xc_pc, results, xc_i, xc_confidence, delay,
                   callVars, fftVars, samples>>

\* part_000:154-155: one iteration, out.push_back(0).
RpPushBack ==
    /\ rp_pc = "push_back"
    /\ rp_i < rp_n
    /\ out' = Append(out, 0)
    /\ rp_i' = rp_i + 1
    /\ UNCHANGED <<mainVars, xc_pc, results, xc_i, xc_confidence, delay,
                   callVars, fftVars, rp_pc, samples>>

\* part_000:154 and part_000:156: the loop ends and the function returns.
RpReturn ==
    /\ rp_pc = "push_back"
    /\ ~(rp_i < rp_n)
    /\ rp_pc' = "done"
    /\ UNCHANGED <<mainVars, xc_pc, results, xc_i, xc_confidence, delay,
                   callVars, fftVars, samples, out, rp_i>>

RpNext == RpLoad \/ RpResize \/ RpPushBack \/ RpReturn

RpSpec == RpInit /\ [][RpNext]_vars

\* Scheduling: main and each producer are threads of a preemptive scheduler,
\* so a thread that can take a step eventually takes one.  A spurious wake-up
\* is allowed but nothing promises one.
FairSpec ==
    /\ Spec
    /\ WF_vars(MainStep)
    /\ \A p \in Producers : WF_vars(ProducerStep(p))

\* =================================================================== claims

\* Producer p's thread was created.
Started(p) == ppc[p] # "idle"

\* The rungs whose correlation succeeded with an accepted confidence: those a
\* RESULT line was printed for, and the rung whose accepted result main is
\* about to act on.
AcceptedRungs ==
    {printed[b] : b \in DOMAIN printed}
      \cup (IF /\ pc \in {"check_rc", "check_confidence"}
               /\ rc >= 0
               /\ confidence >= MIN_CONFIDENCE
              THEN {i} ELSE {})

\* main is in the wait of main.c:101-103 for rung k.
WaitingFor(k) ==
    /\ Running
    /\ i = k
    /\ pc \in {"read_cap", "read_down", "cond_wait", "blocked", "woken"}

\* Both watermarks have reached rung k.
Ready(k) == \A p \in Producers : len[p] >= intervals[k]

\* C1: once cross_correlation at rung r has succeeded with confidence >=
\* MIN_CONFIDENCE, it is not invoked on any rung above r: every invocation
\* made so far is on a rung <= r.
C1_EarlyStop ==
    \A r \in AcceptedRungs : \A c \in DOMAIN calls : calls[c] <= r

\* C1 witness: rung 0 was rejected, rung 1 matched, and main has returned
\* while both watermarks had already passed rung 2.
C1_Witness ==
    /\ pc = "returned"
    /\ printed = <<1>>
    /\ calls = <<0, 1>>
    /\ Ready(2)

\* C2: when the stop flag is set while main waits for rung k and the
\* watermarks have not both reached it, main stops waiting and leaves the
\* loop.
C2_StopEndsWait ==
    \A k \in 0..(n_intervals - 1) :
        (WaitingFor(k) /\ end # 0 /\ ~Ready(k))
          ~> (pc \in {"set_ret", "finish", "return", "returned"})

\* C3: when main has returned from the matcher, the stop flag is set and
\* every producer that was started has been joined.
C3_StopAndJoinOnReturn ==
    (pc = "returned" /\ \E p \in Producers : Started(p))
      => (end # 0 /\ \A p \in Producers : Started(p) => joined[p])

\* C4: a buffer is freed only when every producer that was started has been
\* joined.
C4_NoFreeBeforeJoin ==
    (\E b \in Buffers : arr[b] = "freed")
      => \A p \in Producers : Started(p) => joined[p]

\* C5: main owns global_mutex whenever it reads cap.len or down.len for the
\* wait condition and whenever it calls pthread_cond_wait.
C5_WaitUnderMutex ==
    (Running /\ pc \in {"read_cap", "read_down", "cond_wait"})
      => global_mutex = "main"

\* C6: when main waits for rung k and both producers, neither of them
\* failing, have advanced their watermarks to rung k and finished the
\* checkpoint that broadcasts it, cross_correlation is eventually invoked on
\* rung k.
C6_NoLostWakeup ==
    \A k \in 0..(n_intervals - 1) :
        (/\ WaitingFor(k)
         /\ Ready(k)
         /\ \A p \in Producers : ppc[p] \in {"run", "exited"} /\ ~failing[p])
          ~> (\E c \in DOMAIN calls : calls[c] = k)

\* C7: the step main takes on a negative return code of cross_correlation
\* goes to the loop's next rung and changes neither the printed results, nor
\* the stop flag, nor the return value; and a run that got as far as a
\* correlation returns 0.
C7_FailureSkipsRung ==
    /\ [][(pc = "check_rc" /\ rc < 0 /\ pc' # pc)
            => /\ pc' = "for_cond"
               /\ i' = i + 1
               /\ printed' = printed
               /\ end' = end
               /\ ret' = ret
               /\ exit_code' = exit_code]_vars
    /\ [](pc = "returned" /\ calls # <<>> => exit_code = "0")

\* C7 witness: the call on rung 2 failed and main is about to correlate
\* rung 3, with nothing printed and the stop flag unset.
C7_Witness ==
    /\ pc = "correlate"
    /\ i = 3
    /\ calls = <<0, 1, 2>>
    /\ rc < 0
    /\ printed = <<>>
    /\ end = 0

\* C8: at most one RESULT line is printed in a run.
C8_AtMostOneResult == Len(printed) <= 1

\* C8 witness: a run that correlated four rungs, printed its one result on
\* the last of them and returned.
C8_Witness ==
    /\ pc = "returned"
    /\ calls = <<0, 1, 2, 3>>
    /\ printed = <<3>>

\* C9: main returns 0 exactly when the loop ran to completion or stopped on
\* a match; a wrong argument count, a failed allocation of the ladder and a
\* failed thread creation end the process with code 1; and when the
\* allocation of a sample buffer failed, no producer is started, no
\* correlation is run and the process ends with code 1.
C9_SetupFailureExits1 ==
    /\ pc = "returned"
         => (exit_code = "0" <=> (i = n_intervals \/ printed # <<>>))
    /\ (pc = "exited" /\ (argc # 2 \/ ~intervals_ok)) => exit_code = "1"
    /\ (pc = "returned" /\ \E p \in Producers : ~Started(p))
         => exit_code = "1"
    /\ (\E b \in Buffers : arr[b] = "null")
         => /\ \A p \in Producers : ~Started(p)
            /\ calls = <<>>
            /\ exit_code \in {"running", "1"}

\* The largest absolute value in `results`.
MaxAbs == CHOOSE m \in {abs(results[k]) : k \in DOMAIN results} :
              \A k \in DOMAIN results : abs(results[k]) <= m

\* The smallest index at which |results| is largest.
FirstPeak == CHOOSE d \in DOMAIN results :
                 /\ abs(results[d]) = MaxAbs
                 /\ \A k \in DOMAIN results : abs(results[k]) = MaxAbs => d <= k

\* C10: when the scan has ended, delay is the smallest index at which
\* |results| reaches its maximum.
C10_LagIsFirstPeak == xc_pc = "scanned" => delay = FirstPeak

\* C11: when the scan has ended, the confidence is the largest absolute
\* value in `results`, and so is not negative.
C11_ConfidenceIsMaxAbs ==
    xc_pc = "scanned" => (xc_confidence = MaxAbs /\ xc_confidence >= 0)

\* C12: a call with length < 2 builds no plan, executes no transform, never
\* starts the peak scan (which reads results[0] first), and returns an
\* error rather than a lag.
C12_ShortInputRejected ==
    xc_n < 2 =>
        /\ \A t \in Transforms :
             plan[t] = "none" /\ fpc[t] \notin {"planning", "executing"}
        /\ xc_i = 0
        /\ xc_ret # "lag"

\* C13: at most one transform at a time is inside the block that builds or
\* destroys a plan, and a transform inside fftw_execute does not hold
\* GLOBAL_MUTEX.
C13_PlanCallsSerialized ==
    /\ Cardinality({t \in Transforms :
                      fpc[t] \in {"planning", "destroying"}}) <= 1
    /\ \A t \in Transforms :
         fpc[t] \in {"planning", "destroying"} => GLOBAL_MUTEX = t
    /\ \A t \in Transforms : fpc[t] = "executing" => GLOBAL_MUTEX # t

\* C13's case: both forward transforms are inside fftw_execute at once.
C13_Witness == fpc["fft1"] = "executing" /\ fpc["fft2"] = "executing"

\* No rotation but the trivial one maps x to itself, so the rotation that
\* made y from x is unique.
Aperiodic(x) ==
    \A e \in 1..(Cardinality(DOMAIN x) - 1) : rotate(x, e) # x

\* C14: when the scan has ended on data2 = rotate(data1, shift), the delay
\* is shift.  Stated for the vectors whose rotation is unique, where the
\* claim's lag is determined, and for the runs on which the scan found the
\* first peak of |results|, so that the law is put to the transforms alone.
C14_ShiftLaw ==
    (/\ xc_pc = "scanned"
     /\ data1 # <<>>
     /\ Aperiodic(data1)
     /\ delay = FirstPeak)
        => delay = shift

\* The first m entries of the sequence x, zero-filled when x is shorter.
ZeroFilled(x, m) == [k \in 1..m |-> IF k <= Len(x) THEN x[k] ELSE 0]

\* C19: runProcessing leaves `out` with 2N entries, N = FiveSeconds: the
\* first N are the first N frames of the channel, zero-filled, and the last
\* N are zero.
C19_FiveSecondsThenZeros ==
    rp_pc = "done" =>
        /\ Len(out) = 2 * FiveSeconds
        /\ SubSeq(out, 1, FiveSeconds) = ZeroFilled(samples, FiveSeconds)
        /\ \A k \in (FiveSeconds + 1)..Len(out) : out[k] = 0

\* C15: every invocation of cross_correlation made so far was passed the
\* length intervals[rung], and both watermarks have reached that length, at
\* the invocation and ever since.
C15_CallOnFinalizedPrefix ==
    /\ Len(lengths) = Len(calls)
    /\ \A c \in DOMAIN calls :
         /\ lengths[c] = intervals[calls[c]]
         /\ \A p \in Producers : len[p] >= lengths[c]
    /\ pc = "correlate" => Ready(i)

\* C15's case: a rung above the first was correlated while a producer had
\* already appended beyond it.
C15_Witness ==
    /\ Len(calls) >= 2
    /\ \E p \in Producers : len[p] > lengths[Len(lengths)]
    /\ pc = "check_rc"

\* C16: every invocation of cross_correlation was passed vectors of a
\* length of at least 2*intervals[rung] - 1, never the bare prefix of
\* length intervals[rung].
C16_InputsZeroPadded ==
    \A c \in DOMAIN calls :
        /\ lengths[c] >= 2 * intervals[calls[c]] - 1
        /\ lengths[c] # intervals[calls[c]]

\* C17: the step in which main changes `end` from 0 to 1 is taken with main
\* owning global_mutex, and leads to a broadcast, not straight to
\* pthread_join(cap_th).
C17_StopFlagLockedAndBroadcast ==
    [][(pc = "check_confidence" /\ pc' # pc /\ end = 0 /\ end' = 1)
         => (global_mutex = "main" /\ pc' # "join_cap")]_vars

\* C18: global_mutex and thread_done are initialized in every state in
\* which a producer has been created, main is at or inside
\* pthread_cond_wait, or a producer is locking, holding or releasing the
\* mutex around its broadcast.
C18_PrimitivesInitialized ==
    (\/ \E p \in Producers : Started(p)
     \/ pc \in {"cond_wait", "blocked", "woken"}
     \/ \E p \in Producers : ppc[p] \in {"lock", "locked"})
      => initialized = {"global_mutex", "thread_done"}

\* C20: when the call has returned, both workers are joined, every plan
\* that was built is destroyed, once, and each scratch buffer is released,
\* once; nothing is destroyed or released twice; and the product loop and
\* everything after it run with both workers joined.
C20_NothingOutlivesCall ==
    /\ xc_pc = "returned" =>
         /\ \A t \in Workers : xc_joined[t] /\ fpc[t] = "done"
         /\ \A t \in Transforms :
              plan[t] # "none" => (plan[t] = "destroyed" /\ destroys[t] = 1)
         /\ \A b \in Scratch : buf[b] = "freed" /\ frees[b] = 1
    /\ \A t \in Transforms : destroys[t] <= 1
    /\ \A b \in Scratch : frees[b] <= 1
    /\ xc_pc \in {"product", "alloc_results", "ifft", "scan_init", "scan",
                  "scanned", "free", "return", "returned"}
         => \A t \in Workers : xc_joined[t]

\* C20's case: a call on two or more samples has returned.
C20_Witness == xc_pc = "returned" /\ xc_n >= 2 /\ xc_ret = "lag"

====
